---- MODULE Spec2Model ----
(***************************************************************************)
(* Model of src/test-parser.js: testParser, the recursive walker that      *)
(* turns a tree of feature/scenario objects into mocha describe/it         *)
(* registrations, together with its helpers getDomFragment and itter.      *)
(*                                                                         *)
(* The walker is synchronous; mocha runs a describe body at once, so the   *)
(* recursion is modelled by an explicit call stack.  Every call of a user  *)
(* callback (set, given, getDomFragment) and every registration (describe, *)
(* before, beforeEach, it) is appended to log, with the arguments handed   *)
(* over.                                                                   *)
(***************************************************************************)
EXTENDS Integers, Sequences, FiniteSets, TLC

VARIABLES tests,       \* the node array handed to the root call
          testsIsArray,\* Array.isArray of the root argument
          mode,        \* shape of the root call's arguments
          status,      \* "idle" | "running" | "returned" | "raised"
          stack,       \* call stack of testParser, top = last
          log,         \* callback calls and registrations, in order
          givenCalls,  \* closure state of a stateful given: calls so far
          prevLog,     \* log of the previous root call on the same nodes
          prevMode,    \* its mode
          prevStatus,  \* how it ended
          calls        \* root calls made so far

vars == <<tests, testsIsArray, mode, status, stack, log, givenCalls,
          prevLog, prevMode, prevStatus, calls>>

----------------------------------------------------------------------------
(* Bounds *)

SetLen == 2      \* length of the array a non-empty set generator returns
MaxCalls == 2    \* root calls on the same nodes (SpecRecall)

----------------------------------------------------------------------------
(* JavaScript values.  A value is a sequence of tags: the path by which    *)
(* the object was obtained.  undefined is a value of its own.              *)

Undefined == <<"undefined">>
True == <<"true">>
False == <<"false">>
Bool(b) == IF b THEN True ELSE False

\* `index` is an integer or undefined
UndefinedIndex == -1

Last(s) == s[Len(s)]

FragTag(i) == "f" \o ToString(i)
WinTag(i) == "w" \o ToString(i)
WindowTags == {"W", "subwin"} \cup {WinTag(i) : i \in 0..(SetLen + 1)}

\* docFragment.document is truthy: the object is window-like
HasDocument(v) == Last(v) \in WindowTags
Document(v) == Append(v, "document")

\* the two root objects: a window and a bare fragment
W == <<"W">>
D == <<"D">>

----------------------------------------------------------------------------
(* Nodes (feature-test-object / scenario-test-object).  A callback field   *)
(* holds the kind of function stored there; "none" is "not a function".    *)

Node(nullish, feature, scenario, set, testsArr, tsts, inheritArr, inherit, given, gdf, before, beforeEach) ==
  [nullish |-> nullish, feature |-> feature, scenario |-> scenario,
   set |-> set, testsArr |-> testsArr, tests |-> tsts,
   inheritArr |-> inheritArr, inherit |-> inherit, given |-> given,
   getDomFragment |-> gdf, before |-> before, beforeEach |-> beforeEach]

GivenKinds == {"none", "true", "false", "hasIndex", "once"}

Leaf(name, given, set, gdf) ==
  Node(FALSE, "", name, set, FALSE, <<>>, FALSE, <<>>, given, gdf, FALSE, FALSE)
Inheriting(name, given, gdf, isArr, inherit) ==
  Node(FALSE, "", name, "none", FALSE, <<>>, isArr, inherit, given, gdf, FALSE, FALSE)
Feature(name, set, isArr, tsts, before, beforeEach) ==
  Node(FALSE, name, "", set, isArr, tsts, FALSE, <<>>, "none", "none", before, beforeEach)

NullNode == Node(TRUE, "", "", "none", FALSE, <<>>, FALSE, <<>>, "none", "none", FALSE, FALSE)
EmptyObject == Node(FALSE, "", "", "none", FALSE, <<>>, FALSE, <<>>, "none", "none", FALSE, FALSE)
\* a node with modifiers but neither a feature nor a scenario key
Nameless == Node(FALSE, "", "", "frags", TRUE, <<Leaf("S1", "none", "none", "none")>>,
                 FALSE, <<>>, "true", "sub", TRUE, TRUE)
\* a node carrying both keys
Both == Node(FALSE, "F", "S", "none", TRUE, <<Leaf("S1", "none", "none", "none")>>,
             FALSE, <<>>, "none", "none", FALSE, FALSE)

Leaves == {Leaf("S", g, s, d) : g \in GivenKinds,
                                 s \in {"none", "frags", "empty", "null"},
                                 d \in {"none", "sub", "second"}}

InnerLeaves == {Leaf("S1", g, s, "none") : g \in {"none", "false", "hasIndex", "once"},
                                         s \in {"none", "frags"}}
                 \cup {Leaf("S1", "true", "none", "sub")}

Inheritings ==
  {Inheriting("S", g, d, TRUE, <<c>>) : g \in {"none", "false"},
                                       d \in {"none", "sub", "subwin", "second", "same"},
                                       c \in InnerLeaves}
    \cup {Inheriting("S", "true", "sub", TRUE, <<EmptyObject, Leaf("S1", "none", "none", "none")>>),
          Inheriting("S", "none", "none", TRUE, <<>>)}

PlainGroups ==
  {Feature("G", "none", TRUE, <<c>>, b, b) : c \in InnerLeaves, b \in BOOLEAN}
    \cup {Feature("G", "none", TRUE,
                  <<Leaf("S1", "true", "none", "none"), Leaf("S2", "none", "frags", "sub")>>,
                  TRUE, FALSE),
          Feature("G", "none", TRUE, <<>>, FALSE, TRUE),
          \* tests is no array and set is no function: matches neither shape
          Feature("G", "none", FALSE, <<>>, TRUE, TRUE)}

InnerInheritings ==
  {Inheriting("S2", "none", d, TRUE, <<Leaf("S1", g, "none", "none")>>) :
     d \in {"none", "sub"}, g \in {"hasIndex", "false"}}

FanOutGroups ==
  {Feature("F", s, TRUE, <<c>>, b, ~b) :
     s \in {"frags", "wins", "empty", "null"},
     c \in InnerLeaves \cup InnerInheritings
             \cup {Feature("G", "none", TRUE, <<Leaf("S1", g, "none", "none")>>, FALSE, FALSE) :
                     g \in {"hasIndex", "none"}},
     b \in BOOLEAN}
    \cup {\* set is a function and tests is no array
          Feature("F", "frags", FALSE, <<>>, TRUE, TRUE)}

Malformed == {NullNode, EmptyObject, Nameless, Both}

Inputs ==
  {<<n>> : n \in Leaves \cup Inheritings \cup PlainGroups \cup FanOutGroups \cup Malformed}
    \cup {<<m, Leaf("S", "none", "none", "none")>> : m \in Malformed}
    \cup {<<Leaf("S", "true", "none", "none"), Leaf("S2", "none", "frags", "none")>>}
    \cup {<<Feature("F", "none", TRUE, <<g>>, FALSE, FALSE)>> : g \in PlainGroups}
    \cup {<<>>}

----------------------------------------------------------------------------
(* User callbacks, by kind *)

\* test.set(docFragment): the array returned, or null
setFn(kind, docFragment) ==
  CASE kind = "frags" ->
         [isNull |-> FALSE,
          arr |-> [k \in 1..SetLen |-> Append(docFragment, FragTag(k - 1))]]
    [] kind = "wins" ->
         [isNull |-> FALSE,
          arr |-> [k \in 1..SetLen |-> Append(docFragment, WinTag(k - 1))]]
    [] kind = "empty" -> [isNull |-> FALSE, arr |-> <<>>]
    [] OTHER -> [isNull |-> TRUE, arr |-> <<>>]

\* test.given(docFragment, wndw, index); ncalls is the closure's call count
givenFn(kind, docFragment, wndw, index, ncalls) ==
  CASE kind = "true" -> TRUE
    [] kind = "false" -> FALSE
    [] kind = "hasIndex" -> index # UndefinedIndex
    [] OTHER -> ncalls = 0

\* test.getDomFragment(...args): a JavaScript function reads the arguments
\* it is called with by position; a missing argument is undefined
gdfFn(kind, args) ==
  CASE kind = "sub" -> Append(args[1], "sub")
    [] kind = "subwin" -> Append(args[1], "subwin")
    [] kind = "same" -> args[1]
    [] OTHER -> IF Len(args) >= 2 THEN args[2] ELSE Undefined

\* how a node appears when it is passed as an argument
NodeRef(test) == <<"node", test.feature, test.scenario>>

----------------------------------------------------------------------------
(* The log *)

Event(op, name, args, index, ret) ==
  [op |-> op, name |-> name, args |-> args, index |-> index, ret |-> ret]

Describe(name) == Event("describe", name, <<>>, UndefinedIndex, <<>>)
EndDescribe(name) == Event("end", name, <<>>, UndefinedIndex, <<>>)
SetIndexName(i) == "Set index: " \o ToString(i)

----------------------------------------------------------------------------
(* The helpers of the source *)

\* mutant: the override is never consulted
getDomFragment_unresolved(test, docFragment) == docFragment

\* src/test-parser.js:34-38
getDomFragment(test, docFragment) ==
  IF test.getDomFragment # "none"
    THEN gdfFn(test.getDomFragment, <<docFragment>>)
    ELSE docFragment

\* the call of the override made by getDomFragment, as logged
getDomFragmentCalls(test, docFragment) ==
  IF test.getDomFragment # "none"
    THEN <<Event("getDomFragment", test.scenario, <<docFragment>>, UndefinedIndex,
                 <<getDomFragment(test, docFragment)>>)>>
    ELSE <<>>

\* src/test-parser.js:46-50: registers the test; its body will call
\* test.getActual(docFragment, wndw)
itter(test, docFragment, wndw) ==
  Event("it", test.scenario, <<docFragment, wndw>>, UndefinedIndex, <<>>)

\* mutant: the unwrap forgets to keep the window as the context
Unwrap_keepWndw(docFragment, wndw) ==
  IF HasDocument(docFragment) /\ wndw = Undefined
    THEN [docFragment |-> Document(docFragment), wndw |-> wndw, unwrapped |-> TRUE]
    ELSE [docFragment |-> docFragment, wndw |-> wndw, unwrapped |-> FALSE]

\* mutant: the unwrap does not look at wndw
Unwrap_always(docFragment, wndw) ==
  IF HasDocument(docFragment)
    THEN [docFragment |-> Document(docFragment), wndw |-> docFragment, unwrapped |-> TRUE]
    ELSE [docFragment |-> docFragment, wndw |-> wndw, unwrapped |-> FALSE]

\* src/test-parser.js:61-64
Unwrap(docFragment, wndw) ==
  IF HasDocument(docFragment) /\ wndw = Undefined
    THEN [docFragment |-> Document(docFragment), wndw |-> docFragment, unwrapped |-> TRUE]
    ELSE [docFragment |-> docFragment, wndw |-> wndw, unwrapped |-> FALSE]

\* src/test-parser.js:72-75 and 84-87
Hooks(test, docFragment, wndw) ==
  (IF test.before
     THEN <<Event("before", test.feature, <<wndw>>, UndefinedIndex, <<>>)>>
     ELSE <<>>)
  \o (IF test.beforeEach
        THEN <<Event("beforeEach", test.feature, <<docFragment, wndw>>, UndefinedIndex, <<>>)>>
        ELSE <<>>)

----------------------------------------------------------------------------
(* Call frames of testParser(tests, docFragment, wndw, index) *)

Frame(tsts, isArr, docFragment, wndw, index, via) ==
  [tests |-> tsts, isArray |-> isArr, docFragment |-> docFragment, wndw |-> wndw,
   index |-> index,
   argFragment |-> docFragment, argWndw |-> wndw,  \* the arguments as passed
   via |-> via,          \* "root" | "tests" | "set" | "inherit"
   pc |-> "entry",       \* "entry" | "forEach" | "featureLoop" | "scenarioLoop" | "exit"
   pos |-> 1,            \* forEach position
   isNull |-> FALSE, arr |-> <<>>, i |-> 0,   \* docFragmentArray and loop counter
   unwrapped |-> FALSE]

\* src/test-parser.js:78
SetCall(top, test, i) ==
  Frame(test.tests, test.testsArr, top.arr[i + 1], top.wndw, i, "set")

\* mutant: the group's tests are walked against the scope as it was passed in
TestsCall_argScope(top, test) ==
  Frame(test.tests, TRUE, top.argFragment, top.wndw, UndefinedIndex, "tests")

\* mutant: the index is passed on
TestsCall_keepIndex(top, test) ==
  Frame(test.tests, TRUE, top.docFragment, top.wndw, top.index, "tests")

\* src/test-parser.js:88
TestsCall(top, test) ==
  Frame(test.tests, TRUE, top.docFragment, top.wndw, UndefinedIndex, "tests")

\* mutant: the index is passed on
InheritCall_keepIndex(top, test) ==
  Frame(test.inherit, TRUE, getDomFragment(test, top.docFragment), top.wndw,
        top.index, "inherit")

\* src/test-parser.js:106
InheritCall(top, test) ==
  Frame(test.inherit, TRUE, getDomFragment(test, top.docFragment), top.wndw,
        UndefinedIndex, "inherit")

\* mutant: the test runs against the scope the set was generated from
ScenarioSetBody_outerScope(top, test, i, ncalls) ==
  IF test.given # "none"
    THEN LET g == givenFn(test.given, top.docFragment, top.wndw, top.index, ncalls)
         IN  <<Event("given", test.scenario, <<top.docFragment, top.wndw>>, top.index,
                     <<Bool(g)>>)>>
             \o (IF g THEN <<itter(test, top.docFragment, top.wndw)>> ELSE <<>>)
    ELSE <<itter(test, top.docFragment, top.wndw)>>

\* mutant: given is handed the generated scope and the element's position
ScenarioSetBody_perElement(top, test, i, ncalls) ==
  IF test.given # "none"
    THEN LET g == givenFn(test.given, top.arr[i + 1], top.wndw, i, ncalls)
         IN  <<Event("given", test.scenario, <<top.arr[i + 1], top.wndw>>, i,
                     <<Bool(g)>>)>>
             \o (IF g THEN <<itter(test, top.arr[i + 1], top.wndw)>> ELSE <<>>)
    ELSE <<itter(test, top.arr[i + 1], top.wndw)>>

\* src/test-parser.js:96-101: the body of one `Set index` group of a scenario
ScenarioSetBody(top, test, i, ncalls) ==
  IF test.given # "none"
    THEN LET g == givenFn(test.given, top.docFragment, top.wndw, top.index, ncalls)
         IN  <<Event("given", test.scenario, <<top.docFragment, top.wndw>>, top.index,
                     <<Bool(g)>>)>>
             \o (IF g THEN <<itter(test, top.arr[i + 1], top.wndw)>> ELSE <<>>)
    ELSE <<itter(test, top.arr[i + 1], top.wndw)>>

\* mutant: the outcome of given is not looked at
ScenarioBody_ungated(top, test, ncalls) ==
  (IF test.given # "none"
     THEN <<Event("given", test.scenario, <<top.docFragment, top.wndw>>, top.index,
                  <<Bool(givenFn(test.given, top.docFragment, top.wndw, top.index, ncalls))>>)>>
     ELSE <<>>)
  \o getDomFragmentCalls(test, top.docFragment)
  \o <<itter(test, getDomFragment(test, top.docFragment), top.wndw)>>

\* src/test-parser.js:108-113: a scenario without set and without inherit
ScenarioBody(top, test, ncalls) ==
  IF test.given # "none"
    THEN LET g == givenFn(test.given, top.docFragment, top.wndw, top.index, ncalls)
         IN  <<Event("given", test.scenario, <<top.docFragment, top.wndw>>, top.index,
                     <<Bool(g)>>)>>
             \o (IF g
                   THEN getDomFragmentCalls(test, top.docFragment)
                        \o <<itter(test, getDomFragment(test, top.docFragment), top.wndw)>>
                   ELSE <<>>)
    ELSE getDomFragmentCalls(test, top.docFragment)
         \o <<itter(test, getDomFragment(test, top.docFragment), top.wndw)>>

----------------------------------------------------------------------------
(* The root call *)

Modes == {"wrapped", "explicit", "bare", "undefinedScope"}

\* the docFragment and wndw arguments of the root call
RootArgs(m) ==
  CASE m = "wrapped" -> [docFragment |-> W, wndw |-> Undefined]
    [] m = "explicit" -> [docFragment |-> Document(W), wndw |-> W]
    [] m = "bare" -> [docFragment |-> D, wndw |-> Undefined]
    [] OTHER -> [docFragment |-> Undefined, wndw |-> Undefined]

GivenNames == {"S", "S1", "S2"}

Init ==
  /\ tests \in Inputs
  /\ testsIsArray \in BOOLEAN
  /\ (~testsIsArray => tests = <<>>)
  /\ mode = "none"
  /\ status = "idle"
  /\ stack = <<>>
  /\ log = <<>>
  /\ givenCalls = [n \in GivenNames |-> 0]
  /\ prevLog = <<>>
  /\ prevMode = "none"
  /\ prevStatus = "none"
  /\ calls = 0

Top == stack[Len(stack)]
Rest == SubSeq(stack, 1, Len(stack) - 1)
Cur == Top.tests[Top.pos]

Running(pc) == status = "running" /\ stack # <<>> /\ Top.pc = pc
AtNode == Running("forEach") /\ Top.pos <= Len(Top.tests)

SetTop(f) == stack' = Append(Rest, f)
Push(f) == stack' = Append(stack, f)

Raise ==
  /\ status' = "raised"
  /\ stack' = <<>>

\* the first call of the walker on the nodes
Call(m) ==
  /\ status = "idle"
  /\ mode' = m
  /\ status' = "running"
  /\ stack' = <<Frame(tests, testsIsArray, RootArgs(m).docFragment, RootArgs(m).wndw,
                      UndefinedIndex, "root")>>
  /\ calls' = calls + 1
  /\ UNCHANGED <<tests, testsIsArray, log, givenCalls, prevLog, prevMode, prevStatus>>

\* a further call on the same (freshly built) nodes, the previous log kept
Recall(m) ==
  /\ status \in {"returned", "raised"}
  /\ calls < MaxCalls
  /\ prevLog' = log
  /\ prevMode' = mode
  /\ prevStatus' = status
  /\ mode' = m
  /\ status' = "running"
  /\ log' = <<>>
  /\ givenCalls' = [n \in GivenNames |-> 0]
  /\ stack' = <<Frame(tests, testsIsArray, RootArgs(m).docFragment, RootArgs(m).wndw,
                      UndefinedIndex, "root")>>
  /\ calls' = calls + 1
  /\ UNCHANGED <<tests, testsIsArray>>

\* src/test-parser.js:61-66: reading docFragment.document of undefined throws
Entry ==
  /\ Running("entry")
  /\ IF Top.docFragment = Undefined
       THEN Raise
       ELSE LET u == Unwrap(Top.docFragment, Top.wndw)
            IN  /\ SetTop([Top EXCEPT !.docFragment = u.docFragment,
                                      !.wndw = u.wndw,
                                      !.unwrapped = u.unwrapped,
                                      !.pc = IF Top.isArray THEN "forEach" ELSE "exit"])
                /\ UNCHANGED status
  /\ UNCHANGED <<tests, testsIsArray, mode, log, givenCalls, prevLog, prevMode, prevStatus, calls>>

\* the caller's frame once the callee has returned
Resume(f) ==
  IF f.pc = "featureLoop" THEN [f EXCEPT !.i = f.i + 1] ELSE [f EXCEPT !.pos = f.pos + 1]

\* the describe group whose body made the call
GroupOf(f) ==
  LET t == f.tests[f.pos]
  IN  IF f.pc = "featureLoop" THEN SetIndexName(f.i)
      ELSE IF t.feature # "" THEN t.feature ELSE t.scenario

\* src/test-parser.js:66 (return) and the end of forEach
Return ==
  /\ status = "running" /\ stack # <<>>
  /\ \/ Top.pc = "exit"
     \/ Top.pc = "forEach" /\ Top.pos > Len(Top.tests)
  /\ IF Len(stack) = 1
       THEN /\ status' = "returned"
            /\ stack' = <<>>
            /\ UNCHANGED log
       ELSE LET caller == stack[Len(stack) - 1]
            IN  /\ stack' = Append(SubSeq(stack, 1, Len(stack) - 2), Resume(caller))
                /\ log' = Append(log, EndDescribe(GroupOf(caller)))
                /\ UNCHANGED status
  /\ UNCHANGED <<tests, testsIsArray, mode, givenCalls, prevLog, prevMode, prevStatus, calls>>

\* src/test-parser.js:68: test is null or undefined, test.feature throws
NullElement ==
  /\ AtNode /\ Cur.nullish
  /\ Raise
  /\ UNCHANGED <<tests, testsIsArray, mode, log, givenCalls, prevLog, prevMode, prevStatus, calls>>

\* src/test-parser.js:69-75
FeatureSet ==
  /\ AtNode /\ ~Cur.nullish /\ Cur.feature # "" /\ Cur.set # "none"
  /\ LET r == setFn(Cur.set, Top.docFragment)
     IN  /\ log' = log \o <<Event("set", Cur.feature, <<Top.docFragment>>, UndefinedIndex, r.arr),
                            Describe(Cur.feature)>>
                       \o Hooks(Cur, Top.docFragment, Top.wndw)
         /\ SetTop([Top EXCEPT !.pc = "featureLoop", !.isNull = r.isNull,
                               !.arr = r.arr, !.i = 0])
  /\ UNCHANGED <<tests, testsIsArray, mode, status, givenCalls, prevLog, prevMode, prevStatus, calls>>

\* src/test-parser.js:76-80: one turn of the loop; docFragmentArray.length
\* throws when set returned null
FeatureSetIter ==
  /\ Running("featureLoop")
  /\ Top.isNull \/ Top.i < Len(Top.arr)
  /\ IF Top.isNull
       THEN Raise /\ UNCHANGED log
       ELSE /\ log' = Append(log, Describe(SetIndexName(Top.i)))
            /\ Push(SetCall(Top, Cur, Top.i))
            /\ UNCHANGED status
  /\ UNCHANGED <<tests, testsIsArray, mode, givenCalls, prevLog, prevMode, prevStatus, calls>>

\* src/test-parser.js:76,81: the loop ends, and with it the feature's group
FeatureSetDone ==
  /\ Running("featureLoop")
  /\ ~Top.isNull /\ Top.i >= Len(Top.arr)
  /\ log' = Append(log, EndDescribe(Cur.feature))
  /\ SetTop([Top EXCEPT !.pc = "forEach", !.pos = Top.pos + 1])
  /\ UNCHANGED <<tests, testsIsArray, mode, status, givenCalls, prevLog, prevMode, prevStatus, calls>>

\* src/test-parser.js:82-89
FeatureTests ==
  /\ AtNode /\ ~Cur.nullish /\ Cur.feature # "" /\ Cur.set = "none" /\ Cur.testsArr
  /\ log' = Append(log, Describe(Cur.feature)) \o Hooks(Cur, Top.docFragment, Top.wndw)
  /\ Push(TestsCall(Top, Cur))
  /\ UNCHANGED <<tests, testsIsArray, mode, status, givenCalls, prevLog, prevMode, prevStatus, calls>>

\* src/test-parser.js:68-90: a feature with neither a set nor an array tests
FeatureSkip ==
  /\ AtNode /\ ~Cur.nullish /\ Cur.feature # "" /\ Cur.set = "none" /\ ~Cur.testsArr
  /\ SetTop([Top EXCEPT !.pos = Top.pos + 1])
  /\ UNCHANGED <<tests, testsIsArray, mode, status, log, givenCalls, prevLog, prevMode, prevStatus, calls>>

\* src/test-parser.js:92-94
ScenarioSet ==
  /\ AtNode /\ ~Cur.nullish /\ Cur.feature = "" /\ Cur.scenario # "" /\ Cur.set # "none"
  /\ LET r == setFn(Cur.set, Top.docFragment)
     IN  /\ log' = Append(log, Event("set", Cur.scenario, <<Top.docFragment>>,
                                     UndefinedIndex, r.arr))
         /\ IF r.isNull
              THEN Raise
              ELSE /\ SetTop([Top EXCEPT !.pc = "scenarioLoop", !.arr = r.arr, !.i = 0])
                   /\ UNCHANGED status
  /\ UNCHANGED <<tests, testsIsArray, mode, givenCalls, prevLog, prevMode, prevStatus, calls>>

\* src/test-parser.js:94-103: one turn of the loop
ScenarioSetIter ==
  /\ Running("scenarioLoop")
  /\ Top.i < Len(Top.arr)
  /\ log' = log \o <<Describe(SetIndexName(Top.i))>>
                \o ScenarioSetBody(Top, Cur, Top.i, givenCalls[Cur.scenario])
                \o <<EndDescribe(SetIndexName(Top.i))>>
  /\ givenCalls' = IF Cur.given = "once"
                     THEN [givenCalls EXCEPT ![Cur.scenario] = @ + 1]
                     ELSE givenCalls
  /\ SetTop([Top EXCEPT !.i = Top.i + 1])
  /\ UNCHANGED <<tests, testsIsArray, mode, status, prevLog, prevMode, prevStatus, calls>>

\* src/test-parser.js:94: the loop ends
ScenarioSetDone ==
  /\ Running("scenarioLoop")
  /\ Top.i >= Len(Top.arr)
  /\ SetTop([Top EXCEPT !.pc = "forEach", !.pos = Top.pos + 1])
  /\ UNCHANGED <<tests, testsIsArray, mode, status, log, givenCalls, prevLog, prevMode, prevStatus, calls>>

\* src/test-parser.js:104-107
ScenarioInherit ==
  /\ AtNode /\ ~Cur.nullish /\ Cur.feature = "" /\ Cur.scenario # ""
  /\ Cur.set = "none" /\ Cur.inheritArr
  /\ log' = Append(log, Describe(Cur.scenario)) \o getDomFragmentCalls(Cur, Top.docFragment)
  /\ Push(InheritCall(Top, Cur))
  /\ UNCHANGED <<tests, testsIsArray, mode, status, givenCalls, prevLog, prevMode, prevStatus, calls>>

\* src/test-parser.js:108-113
Scenario ==
  /\ AtNode /\ ~Cur.nullish /\ Cur.feature = "" /\ Cur.scenario # ""
  /\ Cur.set = "none" /\ ~Cur.inheritArr
  /\ log' = log \o ScenarioBody(Top, Cur, givenCalls[Cur.scenario])
  /\ givenCalls' = IF Cur.given = "once"
                     THEN [givenCalls EXCEPT ![Cur.scenario] = @ + 1]
                     ELSE givenCalls
  /\ SetTop([Top EXCEPT !.pos = Top.pos + 1])
  /\ UNCHANGED <<tests, testsIsArray, mode, status, prevLog, prevMode, prevStatus, calls>>

\* mutant: a node without a feature key is taken for a scenario
Skip_asLeaf ==
  /\ AtNode /\ ~Cur.nullish /\ Cur.feature = "" /\ Cur.scenario = ""
  /\ log' = Append(log, itter(Cur, Top.docFragment, Top.wndw))
  /\ SetTop([Top EXCEPT !.pos = Top.pos + 1])
  /\ UNCHANGED <<tests, testsIsArray, mode, status, givenCalls, prevLog, prevMode, prevStatus, calls>>

\* src/test-parser.js:68,91: neither a feature nor a scenario key
Skip ==
  /\ AtNode /\ ~Cur.nullish /\ Cur.feature = "" /\ Cur.scenario = ""
  /\ SetTop([Top EXCEPT !.pos = Top.pos + 1])
  /\ UNCHANGED <<tests, testsIsArray, mode, status, log, givenCalls, prevLog, prevMode, prevStatus, calls>>

Step ==
  \/ Entry
  \/ Return
  \/ NullElement
  \/ FeatureSet
  \/ FeatureSetIter
  \/ FeatureSetDone
  \/ FeatureTests
  \/ FeatureSkip
  \/ ScenarioSet
  \/ ScenarioSetIter
  \/ ScenarioSetDone
  \/ ScenarioInherit
  \/ Scenario
  \/ Skip

Next ==
  \/ \E m \in Modes : Call(m)
  \/ Step

Spec == Init /\ [][Next]_vars

\* the walker called again on the same nodes
NextRecall ==
  \/ \E m \in Modes : Call(m)
  \/ \E m \in Modes : Recall(m)
  \/ Step

SpecRecall == Init /\ [][NextRecall]_vars

TypeOK ==
  /\ status \in {"idle", "running", "returned", "raised"}
  /\ (status = "running") = (stack # <<>>)
  /\ calls \in 0..MaxCalls

----------------------------------------------------------------------------
(* Properties *)

\* what a step appended to the log
NewEvents == SubSeq(log', Len(log) + 1, Len(log'))
Its(evs) == SelectSeq(evs, LAMBDA e : e.op = "it")
Describes(evs) == SelectSeq(evs, LAMBDA e : e.op = "describe")
Givens(evs) == SelectSeq(evs, LAMBDA e : e.op = "given")
Registrations(evs) ==
  SelectSeq(evs, LAMBDA e : e.op \in {"describe", "end", "it", "before", "beforeEach"})

\* the node the walker is about to process, by the branch it will take
AtLeaf == AtNode /\ ~Cur.nullish /\ Cur.feature = "" /\ Cur.scenario # ""
AtInheritingLeaf == AtLeaf /\ Cur.set = "none" /\ Cur.inheritArr
AtDirectLeaf == AtLeaf /\ Cur.set = "none" /\ ~Cur.inheritArr
AtPlainGroup ==
  AtNode /\ ~Cur.nullish /\ Cur.feature # "" /\ Cur.set = "none" /\ Cur.testsArr
InLeafLoop == Running("scenarioLoop") /\ Top.i < Len(Top.arr)

\* the override called with the scope alone, as the source calls it
ResolvedByScope(test, scope) ==
  IF test.getDomFragment # "none" THEN gdfFn(test.getDomFragment, <<scope>>) ELSE scope
\* the override called with the node and the scope
ResolvedByNodeAndScope(test, scope) ==
  IF test.getDomFragment # "none"
    THEN gdfFn(test.getDomFragment, <<NodeRef(test), scope>>)
    ELSE scope

LastSet ==
  CHOOSE k \in 1..Len(log) :
    /\ log[k].op = "set"
    /\ \A j \in (k + 1)..Len(log) : log[j].op # "set"
SinceSet == SubSeq(log, LastSet + 1, Len(log))

\* C2: a scenario whose set yields n scopes registers exactly n groups named
\* `Set index: 0` .. `Set index: n-1`, in that order and one after the other,
\* whatever given says; a test registered inside the group at position j runs
\* against the j-th generated scope.
C2_SetIndexGroups ==
  Running("scenarioLoop") =>
    LET generated == log[LastSet].ret
        groups == SelectSeq(SinceSet, LAMBDA e : e.op \in {"describe", "end"})
    IN  /\ log[LastSet].name = Cur.scenario
        /\ Top.i <= Len(generated)
        /\ (Top.i >= Len(Top.arr) => Top.i = Len(generated))
        /\ Len(groups) = 2 * Top.i
        /\ \A j \in 1..Top.i :
             /\ groups[2 * j - 1] = Describe(SetIndexName(j - 1))
             /\ groups[2 * j] = EndDescribe(SetIndexName(j - 1))
        /\ \A p \in 1..Len(SinceSet) :
             SinceSet[p].op = "it" =>
               /\ SinceSet[p].name = Cur.scenario
               /\ SinceSet[p].args[1] =
                    generated[Len(Describes(SubSeq(SinceSet, 1, p)))]

\* the loop of a scenario's set has ended after at least two groups, the
\* first holding a test and the last holding none
C2_Witness ==
  /\ Running("scenarioLoop")
  /\ Top.i >= Len(Top.arr)
  /\ Top.i >= 2
  /\ Cur.given = "once"
  /\ Len(Its(SinceSet)) = 1
  /\ Last(log) = EndDescribe(SetIndexName(Top.i - 1))

HasFalseGiven(evs) ==
  \E k \in 1..Len(evs) : evs[k].op = "given" /\ evs[k].ret = <<False>>

\* C3: a leaf whose given is callable and evaluates false registers no test.
\* A direct leaf then registers nothing at all; a fan-out leaf still registers
\* its `Set index: i` group, empty; the group enclosing the leaf has been
\* registered.  A callable given is called exactly once where it gates.
C3_GivenFalseRegistersNoTest ==
  [][/\ AtDirectLeaf /\ Cur.given # "none" => Len(Givens(NewEvents)) = 1
     /\ AtDirectLeaf /\ HasFalseGiven(NewEvents) => Registrations(NewEvents) = <<>>
     /\ InLeafLoop /\ Cur.given # "none" => Len(Givens(NewEvents)) = 1
     /\ InLeafLoop /\ HasFalseGiven(NewEvents) =>
          Registrations(NewEvents) =
            <<Describe(SetIndexName(Top.i)), EndDescribe(SetIndexName(Top.i))>>
     /\ (AtDirectLeaf \/ InLeafLoop) /\ Len(stack) >= 2 =>
          \E k \in 1..Len(log) : log[k] = Describe(GroupOf(stack[Len(stack) - 1]))
    ]_vars

\* given said false inside the second `Set index` group, which closed empty
C3_Witness ==
  \E k \in 2..(Len(log) - 1) :
    /\ log[k].op = "given"
    /\ log[k].ret = <<False>>
    /\ log[k - 1] = Describe(SetIndexName(1))
    /\ log[k + 1] = EndDescribe(SetIndexName(1))

\* C4: an inheriting leaf registers one group named after the scenario and
\* walks node.inherit inside it with the resolved scope, the context of the
\* delegating call and an undefined index, also when the delegating call ran
\* with a fan-out index; a given of an inherited leaf receives no index.
C4_InheritDelegation ==
  /\ \A k \in 2..Len(stack) :
       stack[k].via = "inherit" =>
         LET caller == stack[k - 1]
             node == caller.tests[caller.pos]
         IN  /\ stack[k].tests = node.inherit
             /\ stack[k].argFragment = ResolvedByScope(node, caller.docFragment)
             /\ stack[k].argWndw = caller.wndw
             /\ stack[k].index = UndefinedIndex
             /\ \E p \in 1..Len(log) : log[p] = Describe(node.scenario)
  /\ (status = "running" /\ Top.via = "inherit" /\ Top.pc = "entry") =>
       LET node == stack[Len(stack) - 1].tests[stack[Len(stack) - 1].pos]
           n == Len(log)
       IN  IF node.getDomFragment # "none"
             THEN log[n].op = "getDomFragment" /\ log[n - 1] = Describe(node.scenario)
             ELSE log[n] = Describe(node.scenario)
  /\ (status = "running" /\ Top.via = "inherit" /\ log # <<>> /\ Last(log).op = "given") =>
       Last(log).index = UndefinedIndex

\* inside element 1 of a fan-out group, an inherited leaf's given was called
\* without an index
C4_Witness ==
  /\ Len(stack) >= 3
  /\ Top.via = "inherit"
  /\ stack[Len(stack) - 1].index = 1
  /\ Last(log).op = "given"
  /\ Last(log).ret = <<False>>
  /\ Top.tests[1].given = "hasIndex"

IsPrefix(a, b) == Len(a) <= Len(b) /\ a = SubSeq(b, 1, Len(a))

\* C5: walk(nodes, {document: D}) without a context and walk(nodes, D,
\* {document: D}) make the same callback calls and registrations, with the
\* same arguments, in the same order, and end the same way.
C5_RootUnwrapIdempotent ==
  (calls >= 2 /\ {mode, prevMode} = {"wrapped", "explicit"}) =>
    /\ IsPrefix(log, prevLog)
    /\ status \in {"returned", "raised"} => log = prevLog /\ status = prevStatus

\* both calls were made and returned, and a gated test was registered with
\* the window as its context
C5_Witness ==
  /\ calls = 2
  /\ status = "returned"
  /\ prevMode = "wrapped"
  /\ mode = "explicit"
  /\ \E k \in 2..Len(log) :
       /\ log[k].op = "it"
       /\ log[k].args = <<Append(Document(W), "f1"), W>>
       /\ log[k - 1].op = "given"
       /\ log[k - 1].args = <<Document(W), W>>

HooksOnly(evs) == \A k \in 1..Len(evs) : evs[k].op \in {"before", "beforeEach"}

\* the calls made for a plain group's tests
PlainGroupFrames ==
  \A k \in 2..Len(stack) :
    stack[k].via = "tests" =>
      LET caller == stack[k - 1]
          node == caller.tests[caller.pos]
      IN  /\ node.feature # ""
          /\ stack[k].tests = node.tests
          /\ stack[k].isArray
          /\ stack[k].argFragment = caller.docFragment
          /\ stack[k].argWndw = caller.wndw
          /\ stack[k].docFragment = caller.docFragment
          /\ stack[k].wndw = caller.wndw
          /\ ~stack[k].unwrapped
          /\ stack[k].pos \in 1..(Len(node.tests) + 1)

RECURSIVE SafeNodes(_)
\* no element is null or undefined, no set returns null, no inheriting leaf's
\* getDomFragment returns undefined
SafeNodes(seq) ==
  \A k \in 1..Len(seq) :
    /\ ~seq[k].nullish
    /\ seq[k].set # "null"
    /\ ~(seq[k].inheritArr /\ seq[k].getDomFragment = "second")
    /\ SafeNodes(seq[k].tests)
    /\ SafeNodes(seq[k].inherit)

AtMalformed ==
  /\ AtNode /\ ~Cur.nullish
  /\ \/ Cur.feature = "" /\ Cur.scenario = ""
     \/ Cur.feature # "" /\ Cur.set = "none" /\ ~Cur.testsArr

GivenInPlainGroup ==
  /\ status = "running"
  /\ Len(stack) >= 2
  /\ Top.via = "tests"
  /\ log # <<>>
  /\ Last(log).op = "given"

\* C9 as stated: the call for a plain group's tests gets the index of the
\* call that processes the group, and so do the givens of its leaves.
C9_IndexPassedThroughPlainGroup ==
  /\ \A k \in 2..Len(stack) :
       stack[k].via = "tests" => stack[k].index = stack[k - 1].index
  /\ GivenInPlainGroup => Last(log).index = stack[Len(stack) - 1].index

\* C9 amended: the call for a plain group's tests gets no index; the givens
\* of its leaves receive undefined, also when the group is a child of
\* element i of a fan-out group.
C9_IndexDroppedByPlainGroup ==
  /\ \A k \in 2..Len(stack) :
       stack[k].via = "tests" => stack[k].index = UndefinedIndex
  /\ GivenInPlainGroup => Last(log).index = UndefinedIndex

\* a given inside a plain group inside element 1 of a fan-out group was
\* called, and saw no index
C9_Witness ==
  /\ GivenInPlainGroup
  /\ stack[Len(stack) - 1].index = 1
  /\ Top.tests[1].given = "hasIndex"
  /\ Last(log).ret = <<False>>

\* C10 as stated: given is evaluated once for the whole fan-out.
C10_GivenEvaluatedOnce ==
  (Running("scenarioLoop") /\ Cur.given # "none") => Len(Givens(SinceSet)) <= 1

\* C10 amended: given is called once per fan-out element, inside that
\* element's group, each time with the scope the set was generated from, the
\* context and the index of the enclosing call, never the generated scope or
\* the element's position; the outcome of a call gates its own element.
C10_GivenPerElement ==
  (Running("scenarioLoop") /\ Cur.given # "none") =>
    LET generated == log[LastSet].ret
        gs == Givens(SinceSet)
    IN  /\ Len(gs) = Top.i
        /\ \A j \in 1..Len(gs) :
             /\ gs[j].name = Cur.scenario
             /\ gs[j].args = <<log[LastSet].args[1], Top.wndw>>
             /\ gs[j].args[1] # generated[j]
             /\ gs[j].index = Top.index
        /\ \A p \in 1..Len(SinceSet) :
             /\ SinceSet[p].op = "given" =>
                  /\ SinceSet[p - 1].op = "describe"
                  /\ (SinceSet[p + 1].op = "it" <=> SinceSet[p].ret = <<True>>)
             /\ SinceSet[p].op = "it" => SinceSet[p - 1].op = "given"

\* inside element 0 of a fan-out group a leaf's own fan-out ended: given was
\* called for each element and let only the first one through
C10_Witness ==
  /\ Running("scenarioLoop")
  /\ Top.index = 0
  /\ Top.i >= 2
  /\ Top.i >= Len(Top.arr)
  /\ Cur.given = "once"
  /\ Len(Givens(SinceSet)) = Top.i
  /\ Len(Its(SinceSet)) = 1

====
